---------------------------- MODULE Spec2Model ----------------------------
(***************************************************************************)
(* Model of the whatsmyip crate (src/src/lib.rs): the WhatsMyIp builder,   *)
(* WhatsMyIp::find(), the whatsmyip() wrapper, the HTTP probe and the      *)
(* address parser.  External collaborators (the IGD gateway, the HTTP      *)
(* transport, the random source) are nondeterministic inputs.              *)
(***************************************************************************)
EXTENDS Integers, Sequences, FiniteSets, TLC

VARIABLES
    igd,            \* WhatsMyIp.igd
    fast,           \* WhatsMyIp.fast
    http,           \* WhatsMyIp.http
    http_timeout,   \* WhatsMyIp.http_timeout
    count,          \* argument of the last http_limit() call
    caller,         \* which entry point runs find(): "find" or "whatsmyip"
    pc,             \* position of the calling thread
    results,        \* find(): let mut results
    providers,      \* find(): let mut providers (the shuffled copy)
    idx,            \* find(): loop index of  for idx in 0..self.http
    rng,            \* outcome of StdRng::new(): "none" (not drawn), "ok", "fail"
    ret,            \* value returned by find()
    wret,           \* value returned by whatsmyip()
    igdCalls,       \* log: number of igd_ip() invocations
    igdRes,         \* log: what igd_ip() returned
    probed,         \* log: providers probed, in order
    outcomes,       \* log: the address each probe yielded (None for a failure), in order
    sample,         \* a text under study and the address it stands for
    text,           \* ip_from_str(): ip_s
    reply,          \* http_ip_txt(): what the transport delivered
    probeOut,       \* value returned by http_ip_txt()
    parsed,         \* value returned by ip_from_str()
    shown,          \* what fmt::Display wrote for the parsed address
    reparsed        \* value returned by ip_from_str() on `shown`

textVars == <<sample, text, reply, probeOut, parsed, shown, reparsed>>

vars == <<igd, fast, http, http_timeout, count, caller, pc, results, providers,
          idx, rng, ret, wret, igdCalls, igdRes, probed, outcomes, textVars>>

-----------------------------------------------------------------------------
(* Bounds *)

\* largest count passed to http_limit(Some(count))
MaxCount == 5

-----------------------------------------------------------------------------
(* Text: a string is a sequence of one-character strings *)

DecDigits == <<"0", "1", "2", "3", "4", "5", "6", "7", "8", "9">>
HexLower == <<"0", "1", "2", "3", "4", "5", "6", "7", "8", "9",
              "a", "b", "c", "d", "e", "f">>
HexUpper == <<"0", "1", "2", "3", "4", "5", "6", "7", "8", "9",
              "A", "B", "C", "D", "E", "F">>

Range(s) == {s[i] : i \in DOMAIN s}

IsSpace(c) == c \in {" ", "\t", "\n", "\r"}

IndexIn(c, tab) == CHOOSE i \in DOMAIN tab : tab[i] = c

IsDec(c) == c \in Range(DecDigits)
IsHex(c) == c \in Range(HexLower) \cup Range(HexUpper)

DecVal(c) == IndexIn(c, DecDigits) - 1
HexVal(c) == IF c \in Range(HexLower) THEN IndexIn(c, HexLower) - 1
             ELSE IndexIn(c, HexUpper) - 1

\* faulty variant of Trim: nothing is dropped
Trim_none(s) == s

\* str::trim(): drop leading and trailing whitespace
Trim(s) ==
    LET keep == {i \in DOMAIN s : ~IsSpace(s[i])}
        Lo == CHOOSE i \in keep : \A j \in keep : i <= j
        Hi == CHOOSE i \in keep : \A j \in keep : j <= i
    IN IF keep = {} THEN <<>> ELSE SubSeq(s, Lo, Hi)

RECURSIVE SplitOn(_, _)
SplitOn(s, c) ==
    LET at == {i \in DOMAIN s : s[i] = c}
        first == CHOOSE i \in at : \A j \in at : i <= j
    IN IF at = {} THEN <<s>>
       ELSE <<SubSeq(s, 1, first - 1)>> \o SplitOn(SubSeq(s, first + 1, Len(s)), c)

RECURSIVE DecNum(_)
DecNum(s) == IF s = <<>> THEN 0
             ELSE DecNum(SubSeq(s, 1, Len(s) - 1)) * 10 + DecVal(s[Len(s)])

RECURSIVE HexNum(_)
HexNum(s) == IF s = <<>> THEN 0
             ELSE HexNum(SubSeq(s, 1, Len(s) - 1)) * 16 + HexVal(s[Len(s)])

-----------------------------------------------------------------------------
(* Addresses *)

V4(octets) == [tag |-> "V4", v |-> octets]
V6(segs) == [tag |-> "V6", v |-> segs]

Ok(x) == [ok |-> TRUE, val |-> x]
Err(msg) == [ok |-> FALSE, val |-> msg]

Some(x) == [some |-> TRUE, val |-> x]
None == [some |-> FALSE, val |-> 0]

\* the absent address, and None of Option<MyIp>
NoIp == [tag |-> "none", v |-> <<>>]
NoneIp == [some |-> FALSE, val |-> NoIp]

\* one decimal field of a dotted quad: one to three digits, value below 256
\* (the standard library of the crate's time accepts leading zeros)
IsOctet(f) == /\ Len(f) \in 1..3
              /\ \A i \in DOMAIN f : IsDec(f[i])
              /\ DecNum(f) < 256

\* Ipv4Addr::from_str
Ipv4FromStr(s) ==
    LET f == SplitOn(s, ".")
    IN IF Len(f) = 4 /\ \A i \in 1..4 : IsOctet(f[i])
       THEN Ok([i \in 1..4 |-> DecNum(f[i])])
       ELSE Err("AddrParseError")

\* one group of a colon-hex address: one to four hex digits
IsGroup(f) == /\ Len(f) \in 1..4
              /\ \A i \in DOMAIN f : IsHex(f[i])

\* the groups of a run of colon-separated fields; the last field may be a
\* dotted quad standing for two groups when `v4tail` allows it
Groups(fields, v4tail) ==
    LET n == Len(fields)
        last == fields[n]
        quad == Ipv4FromStr(last)
        hexOnly == \A i \in 1..n : IsGroup(fields[i])
        withQuad == /\ v4tail
                    /\ n >= 1
                    /\ quad.ok
                    /\ \A i \in 1..(n - 1) : IsGroup(fields[i])
    IN IF n = 0 THEN Ok(<<>>)
       ELSE IF hexOnly THEN Ok([i \in 1..n |-> HexNum(fields[i])])
       ELSE IF withQuad
            THEN Ok([i \in 1..(n - 1) |-> HexNum(fields[i])]
                    \o <<quad.val[1] * 256 + quad.val[2],
                         quad.val[3] * 256 + quad.val[4]>>)
       ELSE Err("AddrParseError")

Zeros(n) == [i \in 1..n |-> 0]

\* Ipv6Addr::from_str
Ipv6FromStr(s) ==
    LET dbl == {i \in 1..(Len(s) - 1) : s[i] = ":" /\ s[i + 1] = ":"}
        at == CHOOSE i \in dbl : \A j \in dbl : i <= j
        fieldsOf(t) == IF t = <<>> THEN <<>> ELSE SplitOn(t, ":")
        full == Groups(fieldsOf(s), TRUE)
        head == Groups(fieldsOf(SubSeq(s, 1, at - 1)), FALSE)
        tail == Groups(fieldsOf(SubSeq(s, at + 2, Len(s))), TRUE)
    IN IF dbl = {}
       THEN IF full.ok /\ Len(full.val) = 8 THEN full ELSE Err("AddrParseError")
       ELSE IF head.ok /\ tail.ok /\ Len(head.val) + Len(tail.val) <= 7
            THEN Ok(head.val \o Zeros(8 - Len(head.val) - Len(tail.val)) \o tail.val)
            ELSE Err("AddrParseError")

ip_from_str(ip_s) ==
    LET ip_trimmed == Trim(ip_s)
        ip4 == Ipv4FromStr(ip_trimmed)
        ip6 == Ipv6FromStr(ip_trimmed)
    IN IF ip4.ok THEN Ok(V4(ip4.val))
       ELSE IF ip6.ok THEN Ok(V6(ip6.val))
       ELSE Err("Invalid IP address")

-----------------------------------------------------------------------------
(* Rendering: impl fmt::Display for MyIp, which hands over to the Display of
   Ipv4Addr and Ipv6Addr *)

RECURSIVE DecText(_)
DecText(n) == IF n < 10 THEN <<DecDigits[n + 1]>>
              ELSE DecText(n \div 10) \o <<DecDigits[(n % 10) + 1]>>

RECURSIVE HexText(_)
HexText(n) == IF n < 16 THEN <<HexLower[n + 1]>>
              ELSE HexText(n \div 16) \o <<HexLower[(n % 16) + 1]>>

RECURSIVE Join(_, _)
Join(parts, sep) ==
    IF parts = <<>> THEN <<>>
    ELSE IF Len(parts) = 1 THEN parts[1]
    ELSE parts[1] \o sep \o Join(Tail(parts), sep)

\* Display of Ipv4Addr: the four octets in decimal
Ipv4Fmt(o) == Join([i \in 1..4 |-> DecText(o[i])], <<".">>)

\* the two 16-bit groups g, h as a dotted quad
QuadOf(g, h) == <<g \div 256, g % 256, h \div 256, h % 256>>

\* the length of the run of zero groups that starts at group i
RECURSIVE ZeroRun(_, _)
ZeroRun(g, i) == IF i > Len(g) \/ g[i] # 0 THEN 0 ELSE 1 + ZeroRun(g, i + 1)

HexGroups(g) == Join([i \in DOMAIN g |-> HexText(g[i])], <<":">>)

\* Display of Ipv6Addr
Ipv6Fmt(g) ==
    LET starts == {i \in 1..8 : g[i] = 0 /\ (i = 1 \/ g[i - 1] # 0)}
        at == CHOOSE i \in starts :
                 \A j \in starts :
                     \/ ZeroRun(g, i) > ZeroRun(g, j)
                     \/ (ZeroRun(g, i) = ZeroRun(g, j) /\ i <= j)
        n == ZeroRun(g, at)
    IN IF g = Zeros(8) THEN <<":", ":">>
       ELSE IF g = Zeros(7) \o <<1>> THEN <<":", ":", "1">>
       ELSE IF SubSeq(g, 1, 6) = Zeros(6)
            THEN <<":", ":">> \o Ipv4Fmt(QuadOf(g[7], g[8]))
       ELSE IF SubSeq(g, 1, 6) = Zeros(5) \o <<65535>>
            THEN <<":", ":", "f", "f", "f", "f", ":">> \o Ipv4Fmt(QuadOf(g[7], g[8]))
       ELSE IF starts # {} /\ n > 1
            THEN HexGroups(SubSeq(g, 1, at - 1)) \o <<":", ":">>
                 \o HexGroups(SubSeq(g, at + n, 8))
       ELSE HexGroups(g)

\* impl fmt::Display for MyIp
fmt(ip) == IF ip.tag = "V4" THEN Ipv4Fmt(ip.v) ELSE Ipv6Fmt(ip.v)


-----------------------------------------------------------------------------
(* External collaborators: what the network can answer *)

\* response bodies the HTTP services are observed to send
Bodies == {
    <<"2", "0", "3", ".", "0", ".", "1", "1", "3", ".", "5">>,
    <<" ", " ", "1", "9", "8", ".", "5", "1", ".", "1", "0", "0", ".", "7", "\n">>,
    <<"n", "o", "p", "e">>
}

Statuses == {200, 203, 404}

\* what cli.get(url).send() and res.read_to_string() can produce
Responses ==
    {[sendOk |-> FALSE, status |-> 0, readOk |-> FALSE, body |-> <<>>]}
    \cup {[sendOk |-> TRUE, status |-> st, readOk |-> FALSE, body |-> <<>>] :
            st \in Statuses}
    \cup {[sendOk |-> TRUE, status |-> st, readOk |-> TRUE, body |-> b] :
            st \in Statuses, b \in Bodies}

\* what igd::search_gateway() and gw.get_external_ip() can produce
GatewayAnswers ==
    {[found |-> FALSE, extOk |-> FALSE, ip |-> <<0, 0, 0, 0>>],
     [found |-> TRUE, extOk |-> FALSE, ip |-> <<0, 0, 0, 0>>],
     [found |-> TRUE, extOk |-> TRUE, ip |-> <<203, 0, 113, 5>>],
     [found |-> TRUE, extOk |-> TRUE, ip |-> <<192, 0, 2, 1>>]}

TimeoutValues == {None, Some(1)}

\* the value of a Result<MyIp, String>
NoOutcome == [kind |-> "none", ip |-> NoIp, msg |-> ""]
Outcome(r) == IF r.ok THEN [kind |-> "Ok", ip |-> r.val, msg |-> ""]
              ELSE [kind |-> "Err", ip |-> NoIp, msg |-> r.val]

WantOk(a) == [kind |-> "Ok", ip |-> a]
WantErr == [kind |-> "Err", ip |-> NoIp]

\* addresses whose standard text is studied
SampleV4 == {<<198, 51, 100, 7>>, <<203, 0, 113, 5>>, <<0, 0, 0, 0>>,
             <<255, 255, 255, 255>>, <<10, 0, 0, 1>>, <<1, 20, 99, 100>>}

SampleV6 == {<<0, 0, 0, 0, 0, 0, 0, 0>>, <<0, 0, 0, 0, 0, 0, 0, 1>>,
             <<0, 0, 0, 0, 0, 0, 258, 772>>, <<0, 0, 0, 0, 0, 65535, 258, 772>>,
             <<8193, 3512, 0, 0, 0, 0, 0, 1>>, <<1, 2, 3, 4, 5, 6, 7, 8>>,
             <<1, 0, 0, 2, 0, 0, 0, 3>>, <<1, 0, 2, 0, 3, 0, 4, 0>>,
             <<0, 0, 1, 0, 0, 2, 0, 0>>, <<0, 1, 0, 0, 0, 0, 0, 0>>,
             <<65535, 65535, 65535, 65535, 65535, 65535, 65535, 65535>>,
             <<43981, 0, 0, 0, 0, 0, 0, 0>>, <<1, 0, 0, 0, 0, 0, 0, 0>>}

\* standard texts, each with the address it stands for
StandardSamples ==
    {[core |-> Ipv4Fmt(o), want |-> WantOk(V4(o))] : o \in SampleV4}
    \cup {[core |-> Ipv6Fmt(g), want |-> WantOk(V6(g))] : g \in SampleV6}

\* valid texts that are not in standard form, each with its address
OtherValidSamples == {
    [core |-> <<"0", ":", "0", ":", "0", ":", "0", ":", "0", ":", "0", ":", "0", ":", "1">>,
     want |-> WantOk(V6(<<0, 0, 0, 0, 0, 0, 0, 1>>))],
    [core |-> <<"2", "0", "0", "1", ":", "D", "B", "8", ":", ":", "1">>,
     want |-> WantOk(V6(<<8193, 3512, 0, 0, 0, 0, 0, 1>>))],
    [core |-> <<":", ":", "f", "f", "f", "f", ":", "1", "0", "2", ":", "3", "0", "4">>,
     want |-> WantOk(V6(<<0, 0, 0, 0, 0, 65535, 258, 772>>))],
    [core |-> <<"1", ":", "2", ":", "3", ":", "4", ":", "5", ":", "6", ":", "7", ".", "8", ".", "9", ".", "1", "0">>,
     want |-> WantOk(V6(<<1, 2, 3, 4, 5, 6, 1800, 2314>>))],
    [core |-> <<"1", ":", "0", ":", "0", ":", "2", ":", "0", ":", "0", ":", "0", ":", "3">>,
     want |-> WantOk(V6(<<1, 0, 0, 2, 0, 0, 0, 3>>))],
    [core |-> <<"0", ":", ":", "0">>,
     want |-> WantOk(V6(<<0, 0, 0, 0, 0, 0, 0, 0>>))]
}

\* texts that are no address
InvalidSamples == {
    [core |-> <<"n", "o", "p", "e">>, want |-> WantErr],
    [core |-> <<>>, want |-> WantErr],
    [core |-> <<"2", "5", "6", ".", "1", ".", "1", ".", "1">>, want |-> WantErr],
    [core |-> <<"1", ".", "2", ".", "3">>, want |-> WantErr],
    [core |-> <<"1", ".", "2", ".", "3", ".", "4", ".", "5">>, want |-> WantErr],
    [core |-> <<"1", ".", " ", "2", ".", "3", ".", "4">>, want |-> WantErr],
    [core |-> <<"1", ".", "2", ".", "3", ".", "4", ":", "8", "0">>, want |-> WantErr],
    [core |-> <<"1", ":", ":", "2", ":", ":", "3">>, want |-> WantErr],
    [core |-> <<":", ":", ":">>, want |-> WantErr],
    [core |-> <<"1", ":", "2", ":", "3", ":", "4", ":", "5", ":", "6", ":", "7", ":", ":", "8">>, want |-> WantErr],
    [core |-> <<"1", "2", "3", "4", "5", ":", ":", "1">>, want |-> WantErr],
    [core |-> <<"g", ":", ":", "1">>, want |-> WantErr],
    [core |-> <<"1", ":", "2", ":", "3", ":", "4", ":", "5", ":", "6", ":", "7">>, want |-> WantErr],
    [core |-> <<":", ":", "1", ".", "2", ".", "3">>, want |-> WantErr]
}

Samples == StandardSamples \cup OtherValidSamples \cup InvalidSamples

\* whitespace a service may put around the address
Pads == {<<>>, <<" ", " ">>, <<"\n">>, <<"\t", "\r">>}

SendFailed == [sendOk |-> FALSE, status |-> 0, readOk |-> FALSE, body |-> <<>>]

\* what the transport can deliver when the service would send body t
RepliesWith(t) ==
    {SendFailed}
    \cup {[sendOk |-> TRUE, status |-> st, readOk |-> FALSE, body |-> <<>>] :
            st \in Statuses}
    \cup {[sendOk |-> TRUE, status |-> st, readOk |-> TRUE, body |-> t] :
            st \in Statuses}

-----------------------------------------------------------------------------
(* The probes *)

\* faulty variant of http_ip_txt: the status is not looked at
http_ip_txt_anystatus(res) ==
    IF ~res.sendOk THEN Err("send")
    ELSE IF ~res.readOk THEN Err("read")
    ELSE ip_from_str(res.body)

http_ip_txt(res) ==
    IF ~res.sendOk THEN Err("send")
    ELSE IF res.status # 200 THEN Err("status")
    ELSE IF ~res.readOk THEN Err("read")
    ELSE ip_from_str(res.body)

igd_ip(gw) ==
    IF gw.found /\ gw.extOk THEN Some(V4(gw.ip)) ELSE NoneIp

HTTP_PROVIDERS == <<
    [url |-> "http://icanhazip.com", fun |-> "http_ip_txt"],
    [url |-> "http://myip.dnsomatic.com", fun |-> "http_ip_txt"],
    [url |-> "http://bot.whatismyipaddress.com/", fun |-> "http_ip_txt"],
    [url |-> "https://api.ipify.org?format=text", fun |-> "http_ip_txt"] >>

NumProviders == Len(HTTP_PROVIDERS)

\* http_ip_txt tabulated over the responses the transport can deliver
http_ip_txt_of == [res \in Responses |-> http_ip_txt(res)]

\* fun(self, url): dispatch on the function stored in the provider table
CallProvider(p, res) == CASE p.fun = "http_ip_txt" -> http_ip_txt_of[res]

Min(a, b) == IF a <= b THEN a ELSE b

\* faulty variant of ShuffleOrders: entries drawn with replacement
ShuffleOrders_any == [1..NumProviders -> 1..NumProviders]

\* the orders rng.shuffle() can leave the copy in
ShuffleOrders == {p \in [1..NumProviders -> 1..NumProviders] :
                    \A i, j \in 1..NumProviders : p[i] = p[j] => i = j}

Shuffled(p) == [i \in 1..NumProviders |-> HTTP_PROVIDERS[p[i]]]

Contains(seq, x) == \E i \in DOMAIN seq : seq[i] = x

\* faulty variant of Selected: the copy is walked from its end
Selected_backwards(provs, i) == provs[Len(provs) - i]

\* providers[idx], with idx counted from 0
Selected(provs, i) == provs[i + 1]

-----------------------------------------------------------------------------
(* Results of find() and whatsmyip() *)

NoRet == [kind |-> "none", val |-> <<>>, msg |-> ""]
RetOk(res) == [kind |-> "Ok", val |-> res, msg |-> ""]
RetErr(m) == [kind |-> "Err", val |-> <<>>, msg |-> m]

NoWRet == [kind |-> "none", ip |-> NoIp, msg |-> ""]
WRetOk(a) == [kind |-> "Ok", ip |-> a, msg |-> ""]
WRetErr(m) == [kind |-> "Err", ip |-> NoIp, msg |-> m]

-----------------------------------------------------------------------------
(* The builder *)

\* no text is under study
TextIdle ==
    /\ sample = [core |-> <<>>, want |-> WantErr]
    /\ text = <<>>
    /\ reply = SendFailed
    /\ probeOut = NoOutcome
    /\ parsed = NoOutcome
    /\ shown = <<>>
    /\ reparsed = NoOutcome

\* WhatsMyIp::new()
Init ==
    /\ TextIdle
    /\ igd = TRUE
    /\ fast = FALSE
    /\ http = NumProviders
    /\ http_timeout = None
    /\ count = <<>>
    /\ caller = "none"
    /\ pc = "config"
    /\ results = <<>>
    /\ providers = <<>>
    /\ idx = 0
    /\ rng = "none"
    /\ ret = NoRet
    /\ wret = NoWRet
    /\ igdCalls = 0
    /\ igdRes = NoneIp
    /\ probed = <<>>
    /\ outcomes = <<>>

runVars == <<caller, pc, results, providers, idx, rng, ret, wret,
             igdCalls, igdRes, probed, outcomes>>

set_igd(enabled) ==
    /\ pc = "config"
    /\ igd' = enabled
    /\ UNCHANGED <<fast, http, http_timeout, count, runVars>>
    /\ UNCHANGED textVars

set_fast(enabled) ==
    /\ pc = "config"
    /\ fast' = enabled
    /\ UNCHANGED <<igd, http, http_timeout, count, runVars>>
    /\ UNCHANGED textVars

\* faulty variants of Clamp: the count is stored unclamped / is ignored
Clamp_unclamped(c) == IF c.some THEN c.val ELSE NumProviders
Clamp_ignored(c) == NumProviders

\* the value http_limit() stores
Clamp(c) == IF c.some THEN Min(c.val, NumProviders) ELSE NumProviders

http_limit(c) ==
    /\ pc = "config"
    /\ http' = Clamp(c)
    /\ count' = <<c>>
    /\ UNCHANGED <<igd, fast, http_timeout, runVars>>
    /\ UNCHANGED textVars

set_http_timeout(t) ==
    /\ pc = "config"
    /\ http_timeout' = t
    /\ UNCHANGED <<igd, fast, http, count, runVars>>
    /\ UNCHANGED textVars

Counts == {None} \cup {Some(n) : n \in 0..MaxCount}

-----------------------------------------------------------------------------
(* find() *)

\* what a probe yielded: its address, or nothing when it failed
Yield(r) == IF r.ok THEN Some(r.val) ELSE NoneIp

\* faulty variants of PushUnique: no membership test / insertion at the front /
\* the list is overwritten
PushUnique_replace(res, ip) == <<ip>>
PushUnique_always(res, ip) == Append(res, ip)
PushUnique_front(res, ip) == IF Contains(res, ip) THEN res ELSE <<ip>> \o res

\* if !results.contains(&ip) { results.push(ip); }
PushUnique(res, ip) == IF Contains(res, ip) THEN res ELSE Append(res, ip)

\* faulty variant of Finish: the emptiness test is missing
Finish_unchecked(res) == RetOk(res)

\* the tail of find(): an empty list is an error
Finish(res) == IF res = <<>> THEN RetErr("Unable to find any IP address")
               ELSE RetOk(res)

\* faulty variants of IgdReturnsEarly: the fast test is missing / the return
\* is missing
IgdReturnsEarly_always(ip) == ip.some
IgdReturnsEarly_never(ip) == FALSE

\* if self.fast { return Ok(results); } after the gateway answered
IgdReturnsEarly(ip) == ip.some /\ fast

\* faulty variant of ProbeReturnsEarly: the fast test is missing in the loop
ProbeReturnsEarly_never(r) == FALSE
ProbeReturnsEarly_always(r) == r.ok

\* if self.fast { return Ok(results); } after a probe; an Err took `continue`
ProbeReturnsEarly(r) == r.ok /\ fast

\* find() hands its value back to whoever called it
Return(r) ==
    /\ ret' = r
    /\ pc' = IF caller = "whatsmyip" THEN "pop" ELSE "done"

\* a caller invokes find() on the configuration it built
find ==
    /\ pc = "config"
    /\ caller' = "find"
    /\ results' = <<>>
    /\ pc' = "igd"
    /\ UNCHANGED <<igd, fast, http, http_timeout, count, providers, idx, rng,
                   ret, wret, igdCalls, igdRes, probed, outcomes>>
    /\ UNCHANGED textVars

\* faulty variant of whatsmyip: fast(true) is missing
whatsmyip_slow ==
    /\ pc = "config"
    /\ igd' = TRUE
    /\ fast' = FALSE
    /\ http' = NumProviders
    /\ http_timeout' = None
    /\ count' = <<>>
    /\ caller' = "whatsmyip"
    /\ results' = <<>>
    /\ pc' = "igd"
    /\ UNCHANGED <<providers, idx, rng, ret, wret, igdCalls, igdRes, probed,
                   outcomes>>
    /\ UNCHANGED textVars

\* whatsmyip(): WhatsMyIp::new().fast(true).find()
whatsmyip ==
    /\ pc = "config"
    /\ igd' = TRUE
    /\ fast' = TRUE
    /\ http' = NumProviders
    /\ http_timeout' = None
    /\ count' = <<>>
    /\ caller' = "whatsmyip"
    /\ results' = <<>>
    /\ pc' = "igd"
    /\ UNCHANGED <<providers, idx, rng, ret, wret, igdCalls, igdRes, probed,
                   outcomes>>
    /\ UNCHANGED textVars

\* the gateway step of find()
find_igd ==
    /\ pc = "igd"
    /\ \E gw \in GatewayAnswers :
          LET ip == igd_ip(gw)
              res == IF ip.some THEN Append(results, ip.val) ELSE results
          IN /\ igdCalls' = igdCalls + 1
             /\ igdRes' = ip
             /\ results' = res
             /\ IF IgdReturnsEarly(ip) THEN Return(RetOk(res))
                ELSE IF http > 0 THEN pc' = "shuffle" /\ ret' = ret
                ELSE Return(Finish(res))
    /\ UNCHANGED <<igd, fast, http, http_timeout, count, caller, providers, idx,
                   rng, wret, probed, outcomes>>
    /\ UNCHANGED textVars

\* faulty variant of find_shuffle: a missing random source ends find()
find_shuffle_strict ==
    /\ pc = "shuffle"
    /\ \/ /\ rng' = "ok"
          /\ \E p \in ShuffleOrders : providers' = Shuffled(p)
          /\ pc' = "http"
          /\ ret' = ret
       \/ /\ rng' = "fail"
          /\ providers' = HTTP_PROVIDERS
          /\ Return(RetErr("no random source"))
    /\ idx' = 0
    /\ UNCHANGED <<igd, fast, http, http_timeout, count, caller, results,
                   wret, igdCalls, igdRes, probed, outcomes>>
    /\ UNCHANGED textVars

\* copy HTTP_PROVIDERS and shuffle the copy if a random source can be had
find_shuffle ==
    /\ pc = "shuffle"
    /\ \/ /\ rng' = "ok"
          /\ \E p \in ShuffleOrders : providers' = Shuffled(p)
       \/ /\ rng' = "fail"
          /\ providers' = HTTP_PROVIDERS
    /\ idx' = 0
    /\ pc' = "http"
    /\ UNCHANGED <<igd, fast, http, http_timeout, count, caller, results, ret,
                   wret, igdCalls, igdRes, probed, outcomes>>
    /\ UNCHANGED textVars

\* faulty variant of find_probe: a failed probe is propagated (try!) instead
\* of being skipped
find_probe_try ==
    /\ pc = "http"
    /\ \E res \in Responses :
          LET p == Selected(providers, idx)
              r == CallProvider(p, res)
              out == IF r.ok THEN PushUnique(results, r.val) ELSE results
          IN /\ probed' = Append(probed, p)
             /\ outcomes' = Append(outcomes, Yield(r))
             /\ results' = out
             /\ IF ~r.ok
                THEN idx' = idx /\ Return(RetErr(r.val))
                ELSE IF ProbeReturnsEarly(r)
                THEN idx' = idx /\ Return(RetOk(out))
                ELSE /\ idx' = idx + 1
                     /\ IF idx + 1 < http THEN pc' = "http" /\ ret' = ret
                        ELSE Return(Finish(out))
    /\ UNCHANGED <<igd, fast, http, http_timeout, count, caller, providers, rng,
                   wret, igdCalls, igdRes>>
    /\ UNCHANGED textVars

\* one iteration of  for idx in 0..self.http
find_probe ==
    /\ pc = "http"
    /\ \E res \in Responses :
          LET p == Selected(providers, idx)
              r == CallProvider(p, res)
              out == IF r.ok THEN PushUnique(results, r.val) ELSE results
          IN /\ probed' = Append(probed, p)
             /\ outcomes' = Append(outcomes, Yield(r))
             /\ results' = out
             /\ IF ProbeReturnsEarly(r)
                THEN idx' = idx /\ Return(RetOk(out))
                ELSE /\ idx' = idx + 1
                     /\ IF idx + 1 < http THEN pc' = "http" /\ ret' = ret
                        ELSE Return(Finish(out))
    /\ UNCHANGED <<igd, fast, http, http_timeout, count, caller, providers, rng,
                   wret, igdCalls, igdRes>>
    /\ UNCHANGED textVars

\* whatsmyip(): try!(find()) then addrs.pop().ok_or(..)
Pop(r) == IF r.kind = "Err" THEN WRetErr(r.msg)
          ELSE IF r.val = <<>> THEN WRetErr("Unable to find any IP address")
          ELSE WRetOk(r.val[Len(r.val)])

whatsmyip_pop ==
    /\ pc = "pop"
    /\ wret' = Pop(ret)
    /\ pc' = "done"
    /\ UNCHANGED <<igd, fast, http, http_timeout, count, caller, results,
                   providers, idx, rng, ret, igdCalls, igdRes, probed, outcomes>>
    /\ UNCHANGED textVars

Next ==
    \/ \E b \in BOOLEAN : set_igd(b)
    \/ \E b \in BOOLEAN : set_fast(b)
    \/ \E c \in Counts : http_limit(c)
    \/ \E t \in TimeoutValues : set_http_timeout(t)
    \/ find
    \/ whatsmyip
    \/ find_igd
    \/ find_shuffle
    \/ find_probe
    \/ whatsmyip_pop

Spec == Init /\ [][Next]_vars

-----------------------------------------------------------------------------
(* The probe, the parser and the rendering on their own *)

engineVars == <<igd, fast, http, http_timeout, count, caller, results,
                providers, idx, rng, ret, wret, igdCalls, igdRes, probed,
                outcomes>>

\* a service sends some text, padded or not, and the transport delivers it
\* or fails
TextInit ==
    /\ igd = TRUE
    /\ fast = FALSE
    /\ http = NumProviders
    /\ http_timeout \in TimeoutValues
    /\ count = <<>>
    /\ caller = "none"
    /\ pc = "text"
    /\ results = <<>>
    /\ providers = <<>>
    /\ idx = 0
    /\ rng = "none"
    /\ ret = NoRet
    /\ wret = NoWRet
    /\ igdCalls = 0
    /\ igdRes = NoneIp
    /\ probed = <<>>
    /\ outcomes = <<>>
    /\ sample \in Samples
    /\ \E pre \in Pads, post \in Pads : text = pre \o sample.core \o post
    /\ reply \in RepliesWith(text)
    /\ probeOut = NoOutcome
    /\ parsed = NoOutcome
    /\ shown = <<>>
    /\ reparsed = NoOutcome

\* http_ip_txt(opts, url) on the reply
call_http_ip_txt ==
    /\ pc = "text"
    /\ probeOut' = Outcome(http_ip_txt(reply))
    /\ pc' = "parse"
    /\ UNCHANGED <<engineVars, sample, text, reply, parsed, shown, reparsed>>

\* ip_from_str(ip_s) on the text
call_ip_from_str ==
    /\ pc = "parse"
    /\ parsed' = Outcome(ip_from_str(text))
    /\ pc' = IF ip_from_str(text).ok THEN "show" ELSE "done"
    /\ UNCHANGED <<engineVars, sample, text, reply, probeOut, shown, reparsed>>

\* println!("{}", &addr) on the parsed address
call_fmt ==
    /\ pc = "show"
    /\ shown' = fmt(parsed.ip)
    /\ pc' = "reparse"
    /\ UNCHANGED <<engineVars, sample, text, reply, probeOut, parsed, reparsed>>

\* ip_from_str(ip_s) on what was shown
call_ip_from_str_again ==
    /\ pc = "reparse"
    /\ reparsed' = Outcome(ip_from_str(shown))
    /\ pc' = "done"
    /\ UNCHANGED <<engineVars, sample, text, reply, probeOut, parsed, shown>>

TextNext ==
    \/ call_http_ip_txt
    \/ call_ip_from_str
    \/ call_fmt
    \/ call_ip_from_str_again

SpecText == TextInit /\ [][TextNext]_vars

\* find() and whatsmyip() run on the calling thread without waiting for
\* anything but their probes: once entered, each step is taken when every
\* probe returns
FairSpec ==
    /\ Spec
    /\ WF_vars(find_igd)
    /\ WF_vars(find_shuffle)
    /\ WF_vars(find_probe)
    /\ WF_vars(whatsmyip_pop)

-----------------------------------------------------------------------------
(* Vocabulary of the properties *)

NoAddressMsg == "Unable to find any IP address"

Returned == ret.kind # "none"

GatewayGave == igdRes.some

ProbeGave(i) == outcomes[i].some

AllProbesFailed == \A i \in DOMAIN outcomes : ~ProbeGave(i)

\* the addresses the sources yielded, in invocation order
RECURSIVE Yields(_)
Yields(os) == IF os = <<>> THEN <<>>
              ELSE IF os[1].some THEN <<os[1].val>> \o Yields(Tail(os))
              ELSE Yields(Tail(os))

Found == Yields(<<igdRes>> \o outcomes)

\* a sequence without its repeated entries, first occurrences kept
RECURSIVE FirstOccurrences(_)
FirstOccurrences(seq) ==
    IF seq = <<>> THEN <<>>
    ELSE LET init == FirstOccurrences(SubSeq(seq, 1, Len(seq) - 1))
             x == seq[Len(seq)]
         IN IF Contains(init, x) THEN init ELSE Append(init, x)

-----------------------------------------------------------------------------
(* Properties *)

\* C1: with igd(false), find() never invokes the gateway lookup and so
\* holds no gateway-derived address.
C1_DisabledGatewayNotInvoked ==
    ~igd => (igdCalls = 0 /\ ~GatewayGave)

\* C2: when find() has returned, the gateway was disabled or gave nothing, and
\* every consulted provider failed (none consulted included), the value
\* returned is the "no address found" error.
C2_AggregateFailure ==
    (Returned /\ (~igd \/ ~GatewayGave) /\ AllProbesFailed)
        => (ret.kind = "Err" /\ ret.msg = NoAddressMsg)

\* C3: no two entries of the list find() builds and returns are equal.
C3_NoDuplicates ==
    /\ \A i, j \in DOMAIN results : results[i] = results[j] => i = j
    /\ \A i, j \in DOMAIN ret.val : ret.val[i] = ret.val[j] => i = j

\* C3 witness: find() returned a list although one provider repeated the
\* gateway's address and two providers reported the same address.
C3_Witness ==
    /\ ret.kind = "Ok"
    /\ GatewayGave
    /\ \E i \in DOMAIN outcomes : ProbeGave(i) /\ outcomes[i].val = igdRes.val
    /\ \E i, j \in DOMAIN outcomes :
          i < j /\ ProbeGave(i) /\ ProbeGave(j) /\ outcomes[i].val = outcomes[j].val

\* C4: in fast mode find() has returned Ok as soon as a source has yielded an
\* address; after a successful gateway lookup no provider is probed and the
\* result is exactly the gateway address; otherwise only the last provider
\* probed can have succeeded.
C4_FastEarlyExit ==
    fast =>
        /\ (GatewayGave \/ ~AllProbesFailed) => ret.kind = "Ok"
        /\ GatewayGave => (probed = <<>> /\ ret.val = <<igdRes.val>>)
        /\ \A i \in DOMAIN outcomes : ProbeGave(i) => i = Len(outcomes)

\* C4 witness: a fast find() stopped at the second of four providers.
C4_Witness ==
    /\ fast /\ http = NumProviders
    /\ ~GatewayGave /\ igdCalls = 1
    /\ Len(probed) = 2 /\ ~ProbeGave(1) /\ ProbeGave(2)
    /\ ret.kind = "Ok"

\* C5: after http_limit(Some(n)) find() consults at most min(n, |registry|)
\* providers, and none after http_limit(Some(0)).
C5_LimitClamping ==
    (count # <<>> /\ count[1].some) =>
        /\ Len(probed) <= Min(count[1].val, NumProviders)
        /\ count[1].val = 0 => probed = <<>>

\* C5 witness: a find() that ran to its end after http_limit(Some(MaxCount)),
\* a count above the registry size, consulted the whole registry.
C5_Witness ==
    /\ count = <<Some(MaxCount)>>
    /\ MaxCount > NumProviders
    /\ Returned
    /\ Len(probed) = NumProviders

\* C6: an Ok result is never empty; find() returns the error exactly when no
\* invoked source yielded an address.
C6_OkNonEmpty ==
    /\ ret.kind = "Ok" => ret.val # <<>>
    /\ Returned => (ret.kind = "Err" <=> Found = <<>>)
    /\ ret.kind = "Err" => ret.msg = NoAddressMsg

\* C6 witness: find() returned the error after the gateway and two providers
\* were tried.
C6_Witness ==
    /\ ret.kind = "Err"
    /\ igdCalls = 1
    /\ Len(probed) = 2

\* C7: a failing source never ends find(): after a failed gateway lookup with
\* providers to consult the shuffle follows, after a failed probe with
\* providers left the next one follows, and every address a source yielded
\* is in the list returned.
C7_FailureNotFatal ==
    [][ /\ (pc = "igd" /\ ~GatewayGave' /\ http > 0)
            => (pc' = "shuffle" /\ ret' = NoRet)
        /\ (pc = "http" /\ ~outcomes'[Len(outcomes')].some /\ idx + 1 < http)
            => (pc' = "http" /\ idx' = idx + 1 /\ ret' = NoRet)
        /\ Returned' =>
             \A i \in DOMAIN outcomes' :
                 outcomes'[i].some =>
                     (ret'.kind = "Ok" /\ Contains(ret'.val, outcomes'[i].val))
      ]_vars

\* C7 witness: the gateway and the first provider failed, the second provider
\* answered, and its address was returned.
C7_Witness ==
    /\ igdCalls = 1 /\ ~GatewayGave
    /\ Len(outcomes) >= 2 /\ ~ProbeGave(1) /\ ProbeGave(2)
    /\ ret.kind = "Ok" /\ Contains(ret.val, outcomes[2].val)

\* C8: the list returned is the addresses the sources yielded, gateway first
\* and then the providers in the order they were probed, each address at its
\* first occurrence.
C8_DiscoveryOrder ==
    ret.kind = "Ok" =>
        /\ ret.val = FirstOccurrences(Found)
        /\ GatewayGave => ret.val[1] = igdRes.val

\* C8 witness: a gateway address followed by two distinct provider addresses.
C8_Witness ==
    /\ ret.kind = "Ok"
    /\ GatewayGave
    /\ Len(ret.val) = 3
    /\ ret.val[1] = igdRes.val

\* C9: whatsmyip() runs find() on the default configuration with fast set and
\* returns the address of the first source that succeeded; it returns the
\* error exactly when the gateway and every provider of the registry failed.
C9_QuickLookup ==
    caller = "whatsmyip" =>
        /\ fast /\ igd /\ http = NumProviders /\ http_timeout = None
        /\ pc = "done" =>
              /\ wret.kind \in {"Ok", "Err"}
              /\ wret.kind = "Ok" => wret.ip = Found[1]
              /\ wret.kind = "Err" <=>
                    (~GatewayGave /\ Len(outcomes) = NumProviders /\ AllProbesFailed)
              /\ wret.kind = "Err" => wret.msg = NoAddressMsg

\* C9 witness: whatsmyip() returned the address of the third provider after
\* the gateway and two providers had failed.
C9_Witness ==
    /\ caller = "whatsmyip" /\ pc = "done"
    /\ ~GatewayGave /\ Len(outcomes) = 3 /\ ProbeGave(3)
    /\ wret.kind = "Ok" /\ wret.ip = outcomes[3].val

\* C10: whatever builder calls were made, 0 <= http <= |registry|, and after
\* http_limit(None) http is exactly |registry|.
C10_LimitInRange ==
    /\ 0 <= http /\ http <= NumProviders
    /\ count = <<None>> => http = NumProviders
    /\ (count # <<>> /\ count[1].some) => http = Min(count[1].val, NumProviders)

\* C10 witness: a count above the registry size was clamped to it.
C10_Witness ==
    /\ count = <<Some(MaxCount)>>
    /\ MaxCount > NumProviders
    /\ http = NumProviders


\* seq holds every registry entry exactly once
IsRegistryPermutation(seq) ==
    /\ Len(seq) = NumProviders
    /\ \A k \in 1..NumProviders :
          Cardinality({i \in DOMAIN seq : seq[i] = HTTP_PROVIDERS[k]}) = 1

IsPrefix(s, t) == Len(s) <= Len(t) /\ s = SubSeq(t, 1, Len(s))

\* C11: within one find() the gateway is looked up at most once and no
\* provider is probed twice: the providers probed are distinct entries of a
\* permutation of the registry.
C11_AtMostOnce ==
    /\ igdCalls <= 1
    /\ \A i, j \in DOMAIN probed : probed[i] = probed[j] => i = j
    /\ providers # <<>> => IsRegistryPermutation(providers)
    /\ \A i \in DOMAIN probed : Contains(providers, probed[i])

\* C11 witness: the whole registry was probed in a shuffled order.
C11_Witness ==
    /\ rng = "ok"
    /\ providers # HTTP_PROVIDERS
    /\ igdCalls = 1
    /\ Len(probed) = NumProviders

\* C12: the gateway lookup happens while no provider has been probed; probes
\* are issued one per step, the k-th probe going to the k-th entry of the
\* shuffled copy; the copy never changes once drawn.
C12_PhaseOrder ==
    [][ /\ igdCalls' # igdCalls =>
              (probed = <<>> /\ probed' = <<>> /\ providers' = <<>>)
        /\ probed' # probed =>
              /\ igdCalls = 1 /\ igdCalls' = 1
              /\ rng # "none"
              /\ probed' = Append(probed, providers[Len(probed) + 1])
        /\ providers # <<>> => providers' = providers
      ]_vars

\* C12 witness: three probes were issued after the gateway lookup, in a
\* shuffled order.
C12_Witness ==
    /\ igdCalls = 1
    /\ rng = "ok"
    /\ providers # HTTP_PROVIDERS
    /\ Len(probed) = 3
    /\ probed = SubSeq(providers, 1, 3)

\* C13: without fast, find() returns only after probing exactly the first
\* http entries of the shuffled copy, whatever the gateway and the earlier
\* providers answered.
C13_SlowExhaustsAll ==
    (~fast /\ Returned) =>
        /\ Len(probed) = http
        /\ probed = SubSeq(providers, 1, http)
        /\ Len(outcomes) = http

\* C13 witness: the gateway and the first provider succeeded and the two
\* remaining selected providers were probed all the same.
C13_Witness ==
    /\ ~fast /\ Returned
    /\ http = 3
    /\ GatewayGave
    /\ Len(outcomes) = 3 /\ ProbeGave(1) /\ ~ProbeGave(2)

\* C15: without a random source find() goes on: it probes the registry in
\* its declared order and returns as usual; with a random source the
\* providers probed are a prefix of a permutation of the registry.
C15_ShuffleFallback ==
    /\ rng = "fail" =>
          /\ pc \in {"http", "pop", "done"}
          /\ providers = HTTP_PROVIDERS
          /\ IsPrefix(probed, HTTP_PROVIDERS)
          /\ Returned =>
                /\ ret.kind = "Err" <=> Found = <<>>
                /\ ~fast => Len(probed) = http
                /\ (fast /\ ret.kind = "Err") => Len(probed) = http
    /\ rng = "ok" =>
          /\ IsRegistryPermutation(providers)
          /\ IsPrefix(probed, providers)

\* C15 witness: without a random source find() probed the first two registry
\* entries and returned an address.
C15_Witness ==
    /\ rng = "fail"
    /\ http = 2
    /\ probed = SubSeq(HTTP_PROVIDERS, 1, 2)
    /\ ret.kind = "Ok"

\* C18: in fast mode an Ok result holds exactly one address, and the address
\* whatsmyip() returns is the whole of the list find() returned.
C18_FastSingleton ==
    /\ (fast /\ ret.kind = "Ok") => Len(ret.val) = 1
    /\ (caller = "whatsmyip" /\ pc = "done" /\ ret.kind = "Ok") =>
          (wret.kind = "Ok" /\ ret.val = <<wret.ip>>)

\* C18 witness: whatsmyip() returned an address found by the second provider.
C18_Witness ==
    /\ caller = "whatsmyip" /\ pc = "done"
    /\ wret.kind = "Ok"
    /\ Len(probed) = 2

\* C19: the addresses in the list are exactly the addresses the sources
\* invoked in this call yielded, and the list is never longer than 1 + http.
C19_ResultFromSources ==
    /\ Range(results) = Range(Found)
    /\ Len(results) <= 1 + http
    /\ Returned =>
          /\ Range(ret.val) = Range(Found)
          /\ Len(ret.val) <= 1 + http

\* C19 witness: three distinct addresses came back from the gateway and four
\* providers, two of which repeated an address.
C19_Witness ==
    /\ ret.kind = "Ok"
    /\ Len(ret.val) = 3
    /\ Len(outcomes) = NumProviders
    /\ \A i \in DOMAIN outcomes : ProbeGave(i)


\* C16: when every probe returns, a find() that was entered returns; it goes
\* from the gateway phase to the HTTP phase to its return, leaves a phase
\* early only in fast mode with an address found, and makes at most 1 + http
\* probe invocations.
C16_Terminates ==
    /\ (pc = "igd") ~> Returned
    /\ [](igdCalls + Len(probed) <= 1 + http)
    /\ [][ /\ pc = "igd" => pc' \in {"shuffle", "pop", "done"}
           /\ pc = "shuffle" => pc' = "http"
           /\ pc = "http" => pc' \in {"http", "pop", "done"}
           /\ (pc = "igd" /\ Returned' /\ http > 0) => (fast /\ Found' # <<>>)
           /\ (pc = "http" /\ Returned' /\ Len(probed') < http)
                 => (fast /\ Found' # <<>>)
           /\ Returned => (pc \in {"pop", "done"} /\ ret' = ret)
         ]_vars

\* C16 witness: a find() returned after the gateway lookup and four probes.
C16_Witness ==
    /\ Returned
    /\ igdCalls = 1
    /\ Len(probed) = NumProviders
    /\ http = NumProviders


\* the 2xx class of HTTP status codes
IsSuccessStatus(st) == st \in 200..299

IsTransportError(o) == o.kind = "Err" /\ o.msg \in {"send", "status", "read"}

\* what the parser owes for the text under study
ParsedAsWanted(o) ==
    /\ sample.want.kind = "Ok" => (o.kind = "Ok" /\ o.ip = sample.want.ip)
    /\ sample.want.kind = "Err" =>
          (o.kind = "Err" /\ o.msg = "Invalid IP address")

\* C14 as stated: the probe fails with a transport error exactly when the
\* request failed or the status is not a success (2xx) status, and every
\* delivered body of a success-status response is trimmed and parsed.
C14_SuccessStatusParsed ==
    probeOut.kind # "none" =>
        /\ IsTransportError(probeOut) <=>
              (~reply.sendOk \/ ~reply.readOk \/ ~IsSuccessStatus(reply.status))
        /\ (reply.sendOk /\ reply.readOk /\ IsSuccessStatus(reply.status))
              => ParsedAsWanted(probeOut)

\* C14 amended: the probe fails with a transport error exactly when the
\* request failed or the status is not 200 OK, and every delivered body of a
\* 200 response is trimmed and parsed.
C14_OkStatusParsed ==
    probeOut.kind # "none" =>
        /\ IsTransportError(probeOut) <=>
              (~reply.sendOk \/ ~reply.readOk \/ reply.status # 200)
        /\ (reply.sendOk /\ reply.readOk /\ reply.status = 200)
              => ParsedAsWanted(probeOut)

\* C14 witness: a 200 response with a padded address was parsed to it.
C14_Witness ==
    /\ reply.sendOk /\ reply.readOk /\ reply.status = 200
    /\ reply.body = <<" ", " ", "1", "9", "8", ".", "5", "1", ".", "1", "0", "0",
                      ".", "7", "\n">>
    /\ probeOut.kind = "Ok"
    /\ probeOut.ip = V4(<<198, 51, 100, 7>>)

\* C17: the parser ignores surrounding whitespace and yields the address a
\* valid text stands for (a dotted quad as V4, a colon-hex text as V6) and an
\* error for any other text; showing the parsed address gives its standard
\* text: the text itself if it was standard, and in every case a text that
\* parses back to the same address.
C17_ParseRoundTrip ==
    /\ parsed.kind # "none" => ParsedAsWanted(parsed)
    /\ (shown # <<>> /\ sample \in StandardSamples) => shown = sample.core
    /\ reparsed.kind # "none" =>
          /\ reparsed = parsed
          /\ fmt(reparsed.ip) = shown

\* C17 witness: "  198.51.100.7\n" was parsed to V4(198.51.100.7), shown as
\* "198.51.100.7" and parsed again.
C17_Witness ==
    /\ text = <<" ", " ", "1", "9", "8", ".", "5", "1", ".", "1", "0", "0",
                ".", "7", "\n">>
    /\ parsed.kind = "Ok" /\ parsed.ip = V4(<<198, 51, 100, 7>>)
    /\ shown = <<"1", "9", "8", ".", "5", "1", ".", "1", "0", "0", ".", "7">>
    /\ reparsed.kind = "Ok"

=============================================================================
